---- MODULE Spec2Model ----
(***************************************************************************)
(* Model of ControlSaveTiles (src/src/ControlSaveTiles.ts): the save       *)
(* orchestrator of leaflet.offline.  One control object, its Status        *)
(* Record, the promise callbacks of its downloads, persists, recounts and  *)
(* removals, and the events it fires on the base layer.                    *)
(*                                                                         *)
(* JavaScript runs the control on one thread: every handler below (a click *)
(* handler, a promise reaction) runs to completion, so each is one action. *)
(* The collaborators of TileManager (downloadTile, saveTile, truncate,     *)
(* getStorageLength) and of the map (getZoom, getTileUrls) are not part of *)
(* the source file; they are modelled from their interface: a promise that *)
(* some later step resolves or rejects.                                    *)
(***************************************************************************)
EXTENDS Integers, Sequences, FiniteSets, TLC

\* ------------------------------------------------------------------ bounds
\* save requests that get past the zoom check
MaxRuns == 2
\* largest value of options.parallel
MaxParallel == 2
\* options.maxZoom; the map's zoom ranges over minZoom-1 .. TopZoom+1
TopZoom == 5
\* truncate() calls outstanding at a time
MaxRemovals == 1
\* tiles in the store when the control is constructed
MaxStored == 1
\* calls the confirm hook makes of a successCallback it was handed
MaxCalls == 2
\* getStorageLength() calls outstanding when setStorageSize() is called from outside
MaxSizeCalls == 1

\* const minZoom = 5 in _saveTiles
minZoom == 5

VARIABLES
    options,      \* this.options, fixed by the constructor
    baseLayer,    \* this._baseLayer: the layer the events are fired on
    status,       \* this.status; status.run names the array _tilesforSave refers to
    nruns,        \* number of _saveTiles calls that reached _resetStatus
    enumerated,   \* per run: the tile list as built by _saveTiles (tiles before any shift)
    tiles,        \* per run: the closure's array `tiles` (shared with status._tilesforSave)
    gate,         \* per run: "none" | "waiting" (confirm hook holds successCallback) | "passed"
    calls,        \* per run: calls of successCallback made by the confirm hook
    launched,     \* per run: loader chains started (the const parallel of each successCallback call, summed)
    worker,       \* per run, per loader chain: [st, tile]
    pending,      \* .then(loader) reactions queued, in order: <<run, chain>>
    claimed,      \* per run: the tiles handed to _loadTile, in order
    saving,       \* saveTile promises outstanding: <<run, tile>>
    store,        \* the tile store: set of storage keys
    counting,     \* getStorageLength promises outstanding
    rmHeld,       \* the confirmRemoval hook was handed a successCallback of _rmTiles
    truncating,   \* truncate promises outstanding
    unhandled,    \* promise rejections of the last step that nobody handles
    fired,        \* events fired on _baseLayer by the last step, in order
    settled,      \* values the setStorageSize() promises settled with in the last step
    emitted,      \* events fired for the current Status Record, by name
    call          \* the save request of the last step: the map's zoom and whether _saveTiles threw

vars == <<options, baseLayer, status, nruns, enumerated, tiles, gate, calls, launched, worker,
          pending, claimed, saving, store, counting, rmHeld,
          truncating, unhandled, fired, settled, emitted, call>>

\* ------------------------------------------------------------ small helpers
Min(a, b) == IF a < b THEN a ELSE b

Runs == 1..MaxRuns
Workers == 1..(MaxCalls * MaxParallel)
\* options.zoomlevels left undefined (no list of levels equals it)
Undefined == <<-1>>
NoTile == <<>>

\* the zoom levels the map can be at when a button is clicked
MapZooms == (minZoom - 1)..(TopZoom + 1)

RECURSIVE Concat(_)
Concat(ss) == IF ss = <<>> THEN <<>> ELSE Head(ss) \o Concat(Tail(ss))

\* --------------------------------------------------------- the Status Record
\* status: SaveStatus = {storagesize: 0, lengthToBeSaved: 0, ...} (field initialiser)
InitialStatus ==
    [storagesize |-> 0, lengthToBeSaved |-> 0, lengthSaved |-> 0,
     lengthLoaded |-> 0, run |-> 0]

\* status._tilesforSave: the array of the run the record was made for
tilesforSave == tiles[status.run]

\* _resetStatus(tiles): a new record; storagesize is carried over
ResetStatus(s, r, tl) ==
    [lengthLoaded |-> 0, lengthToBeSaved |-> Len(tl), lengthSaved |-> 0,
     run |-> r, storagesize |-> s.storagesize]

\* ------------------------------------------------------------------ events
\* _baseLayer.fire(name, this.status): listeners run synchronously and see the
\* record as it is at that moment
Ev(name, s) == [name |-> name, status |-> s, layer |-> baseLayer]
NoPayload == [none |-> TRUE]
\* the last step was no save request
NoCall == [zoom |-> -1, threw |-> FALSE]
Names(evs) == [i \in DOMAIN evs |-> evs[i].name]
Count(evs, name) == Cardinality({i \in DOMAIN evs : evs[i].name = name})
NoneEmitted == [savestart |-> 0, loadend |-> 0, saveend |-> 0, recount |-> 0]

\* ------------------------------------------------- building the tile list
\* the zoom levels of a save request at map zoom z (after the zoom check)
ZoomLevels(opts, z) ==
    IF opts.saveWhatYouSee
    THEN [i \in 1..(opts.maxZoom - z + 1) |-> z + i - 1]
    ELSE IF opts.zoomlevels # Undefined THEN opts.zoomlevels ELSE <<z>>

\* _baseLayer.getTileUrls(area, zoom): the tiles of the area at that level.  The
\* area is the same for every request; it lies within one tile at each level.
getTileUrls(zoom) == << <<zoom, 1>> >>

\* the loop over zoomlevels: tiles = tiles.concat(getTileUrls(area, zoomlevels[i]))
TileList(opts, z) ==
    LET zs == ZoomLevels(opts, z)
    IN  Concat([i \in DOMAIN zs |-> getTileUrls(zs[i])])

\* the check made with <= : the floor itself is refused
ZoomTooLowInclusive(opts, z) == opts.saveWhatYouSee /\ z <= minZoom

\* the zoom check of "save what you see"
ZoomTooLow(opts, z) == opts.saveWhatYouSee /\ z < minZoom

\* ------------------------------------------------------- the worker loops
\* tiles.pop() in place of tiles.shift(): the last element is taken
ShiftLast(q) ==
    IF q = <<>> THEN [tile |-> NoTile, rest |-> q]
    ELSE [tile |-> q[Len(q)], rest |-> SubSeq(q, 1, Len(q) - 1)]

\* tiles[0] in place of tiles.shift(): the first element is read and left where it is
ShiftPeeks(q) ==
    IF q = <<>> THEN [tile |-> NoTile, rest |-> q]
    ELSE [tile |-> Head(q), rest |-> q]

\* tiles.shift(): the first element and what is left; undefined on an empty array
Shift(q) ==
    IF q = <<>> THEN [tile |-> NoTile, rest |-> q]
    ELSE [tile |-> Head(q), rest |-> Tail(q)]

\* one call of loader() by chain w: claim a tile and start its download, or end
LoaderCall(acc, w) ==
    LET sh == Shift(acc.tiles)
    IN  IF sh.tile = NoTile
        THEN [acc EXCEPT !.worker[w] = [st |-> "done", tile |-> NoTile]]
        ELSE [tiles |-> sh.rest,
              worker |-> [acc.worker EXCEPT ![w] = [st |-> "loading", tile |-> sh.tile]],
              claimed |-> Append(acc.claimed, sh.tile)]

\* _loadTile(tile).then(loader): when the tile is loaded the chain calls loader()
ThenLoader(acc, w) == LoaderCall(acc, w)

\* options.parallel chains whatever the length of the array
ParallelOfOptions(q, opts) == opts.parallel

\* const parallel = Math.min(tiles.length, this.options.parallel)
Parallel(q, opts) == Min(Len(q), opts.parallel)

\* for (let i = 0; i < parallel; i += 1) loader();
RECURSIVE StartLoaders(_, _, _)
StartLoaders(i, n, acc) ==
    IF i > n THEN acc ELSE StartLoaders(i + 1, n, LoaderCall(acc, i))

NoWorker == [st |-> "none", tile |-> NoTile]

\* ------------------------------------------------------------------- Init
\* the explicit lists of levels some configurations pass as options.zoomlevels
\* (in the order given, which need not be ascending): two levels
TwoLevels == <<minZoom + 1, minZoom>>

\* three levels
ThreeLevels == <<minZoom + 2, minZoom + 1, minZoom>>

\* the options a control is constructed with
OptionSets ==
    { [saveWhatYouSee |-> sw, maxZoom |-> TopZoom, zoomlevels |-> zl,
       confirm |-> cf, confirmRemoval |-> cr, parallel |-> p] :
         sw \in BOOLEAN, zl \in {Undefined, TwoLevels, ThreeLevels},
         cf \in BOOLEAN, cr \in BOOLEAN, p \in 1..MaxParallel }

\* what the store holds when the control is constructed
StoresAtStart == { {<<z, 1>> : z \in minZoom..(minZoom + k - 1)} : k \in 0..MaxStored }

\* the state the constructor leaves, for a control built with options o
Constructed(o) ==
    /\ options = o
    /\ baseLayer = "first"
    /\ status = InitialStatus
    /\ nruns = 0
    /\ enumerated = [r \in Runs |-> <<>>]
    /\ tiles = [r \in 0..MaxRuns |-> <<>>]
    /\ gate = [r \in Runs |-> "none"]
    /\ calls = [r \in Runs |-> 0]
    /\ launched = [r \in Runs |-> 0]
    /\ pending = <<>>
    /\ worker = [r \in Runs |-> [w \in Workers |-> NoWorker]]
    /\ claimed = [r \in Runs |-> <<>>]
    /\ saving = {}
    /\ store \in StoresAtStart
    /\ counting = 1          \* the constructor calls setStorageSize()
    /\ rmHeld = FALSE
    /\ truncating = 0
    /\ unhandled = 0
    /\ fired = <<>>
    /\ settled = <<>>
    /\ emitted = NoneEmitted
    /\ call = NoCall

\* controls that take the zoom levels from the map or from a list of two; "save
\* what you see" does not read options.zoomlevels, so it is left undefined there
Init ==
    \E o \in OptionSets :
        /\ o.zoomlevels \in {Undefined, TwoLevels}
        /\ o.saveWhatYouSee => o.zoomlevels = Undefined
        /\ Constructed(o)

\* controls of every configuration
InitAll ==
    \E o \in OptionSets : Constructed(o)

\* -------------------------------------------------------------- _saveTiles
\* this._baseLayer.fire('savestart', this.status) comes before the loader() calls:
\* of a run's array before and after them, the one the listener finds
AtSavestart(before, after) == before

\* the savestart event: the status and the array its _tilesforSave refers to
EvStart(s, q) ==
    [name |-> "savestart", status |-> s, layer |-> baseLayer, tilesforSave |-> q]

\* successCallback of _saveTiles for run r, whose array is q, with this.status = s:
\* fire savestart, then start min(tiles.length, parallel) loader chains
SuccessCallback(r, s, q) ==
    LET n   == Parallel(q, options)
        res == StartLoaders(launched[r] + 1, launched[r] + n,
                            [tiles |-> q, worker |-> worker[r], claimed |-> claimed[r]])
    IN  /\ fired' = <<EvStart(s, IF s.run = r THEN AtSavestart(q, res.tiles)
                                              ELSE tiles[s.run])>>
        /\ emitted' = [(IF s.run = status.run THEN emitted ELSE NoneEmitted)
                          EXCEPT !.savestart = @ + 1]
        /\ gate' = [gate EXCEPT ![r] = "passed"]
        /\ launched' = [launched EXCEPT ![r] = @ + n]
        /\ tiles' = [tiles EXCEPT ![r] = res.tiles]
        /\ worker' = [worker EXCEPT ![r] = res.worker]
        /\ claimed' = [claimed EXCEPT ![r] = res.claimed]

\* a save request that calls successCallback itself whatever the options
ConfirmSkipped(opts) == FALSE

\* if (this.options.confirm)
Confirm(opts) == opts.confirm

\* a click on the save button while the map is at zoom z
SaveTiles(z) ==
    IF ZoomTooLow(options, z)
    THEN \* throw new Error(...): nothing else has happened
         /\ call' = [zoom |-> z, threw |-> TRUE]
         /\ settled' = <<>>
         /\ unhandled' = 0
         /\ fired' = <<>>
         /\ UNCHANGED <<options, baseLayer, status, nruns, enumerated, tiles, gate, launched, worker,
                        claimed, saving, store, counting, rmHeld, truncating, emitted,
                        calls, pending>>
    ELSE /\ nruns < MaxRuns
         /\ LET r  == nruns + 1
                tl == TileList(options, z)
                s  == ResetStatus(status, r, tl)
            IN  /\ nruns' = r
                /\ enumerated' = [enumerated EXCEPT ![r] = tl]
                /\ status' = s
                /\ IF Confirm(options)
                   THEN \* this.options.confirm(this.status, successCallback)
                        /\ gate' = [gate EXCEPT ![r] = "waiting"]
                        /\ tiles' = [tiles EXCEPT ![r] = tl]
                        /\ fired' = <<>>
                        /\ emitted' = NoneEmitted
                        /\ UNCHANGED <<launched, worker, claimed>>
                   ELSE SuccessCallback(r, s, tl)
         /\ call' = [zoom |-> z, threw |-> FALSE]
         /\ settled' = <<>>
         /\ unhandled' = 0
         /\ UNCHANGED <<options, baseLayer, saving, store, counting, rmHeld, truncating, calls,
                        pending>>

\* the confirm hook of run r calls the successCallback it was handed: the first
\* time or once more (the closure stays with the hook)
Proceed(r) ==
    /\ Confirm(options)
    /\ gate[r] # "none"
    /\ calls[r] < MaxCalls
    /\ calls' = [calls EXCEPT ![r] = @ + 1]
    /\ SuccessCallback(r, status, tiles[r])
    /\ settled' = <<>>
    /\ call' = NoCall
    /\ unhandled' = 0
    /\ UNCHANGED <<options, baseLayer, status, nruns, enumerated, saving, store, counting,
                   rmHeld, truncating>>
    /\ UNCHANGED <<pending>>

\* ------------------------------------------------------ _loadTile, loader
\* the download callback counting the tile as saved instead of loaded
LoadedCountsSaved(s) == [s EXCEPT !.lengthSaved = @ + 1]

\* self.status.lengthLoaded += 1
Loaded(s) == [s EXCEPT !.lengthLoaded = @ + 1]

\* loadend fired one tile early: the comparison made as if before the increment
LoadEventsOneEarly(s) ==
    <<Ev("loadtileend", s)>> \o
    (IF s.lengthLoaded + 1 = s.lengthToBeSaved THEN <<Ev("loadend", s)>> ELSE <<>>)

\* the events of the download callback: loadtileend, and loadend on the last tile
LoadEvents(s) ==
    <<Ev("loadtileend", s)>> \o
    (IF s.lengthLoaded = s.lengthToBeSaved THEN <<Ev("loadend", s)>> ELSE <<>>)

\* downloadTile(tile.url) of chain w of run r resolves.  The callback counts the
\* tile, starts saveTile (not awaited) and fires the events; the promise of
\* _loadTile settles after it and its .then(loader) reaction is queued
DownloadResolved(r, w) ==
    /\ worker[r][w].st = "loading"
    /\ LET s == Loaded(status)
       IN  /\ status' = s
           /\ saving' = saving \cup {<<r, worker[r][w].tile>>}
           /\ fired' = LoadEvents(s)
           /\ emitted' = [emitted EXCEPT !.loadend = @ + Count(LoadEvents(s), "loadend")]
    /\ worker' = [worker EXCEPT ![r][w].st = "loaded"]
    /\ pending' = Append(pending, <<r, w>>)
    /\ settled' = <<>>
    /\ call' = NoCall
    /\ unhandled' = 0
    /\ UNCHANGED <<options, baseLayer, nruns, enumerated, tiles, claimed, gate, launched, store,
                   counting, rmHeld, truncating>>
    /\ UNCHANGED <<calls>>

\* the oldest queued .then(loader) reaction runs: its chain calls loader()
Loader ==
    /\ pending # <<>>
    /\ LET r   == Head(pending)[1]
           w   == Head(pending)[2]
           res == ThenLoader([tiles |-> tiles[r], worker |-> worker[r],
                              claimed |-> claimed[r]], w)
       IN  /\ tiles' = [tiles EXCEPT ![r] = res.tiles]
           /\ worker' = [worker EXCEPT ![r] = res.worker]
           /\ claimed' = [claimed EXCEPT ![r] = res.claimed]
    /\ pending' = Tail(pending)
    /\ fired' = <<>>
    /\ settled' = <<>>
    /\ call' = NoCall
    /\ unhandled' = 0
    /\ UNCHANGED <<options, baseLayer, status, nruns, enumerated, gate, calls, launched, saving,
                   store, counting, rmHeld, truncating, emitted>>

\* downloadTile rejects: no callback runs, the rejection passes through
\* _loadTile(tile).then(loader) to the promise loader() returned, which nobody holds
DownloadRejected(r, w) ==
    /\ worker[r][w].st = "loading"
    /\ worker' = [worker EXCEPT ![r][w].st = "failed"]
    /\ unhandled' = 1
    /\ fired' = <<>>
    /\ settled' = <<>>
    /\ call' = NoCall
    /\ UNCHANGED <<options, baseLayer, status, nruns, enumerated, tiles, gate, launched, claimed,
                   saving, store, counting, rmHeld, truncating, emitted>>
    /\ UNCHANGED <<calls, pending>>

\* --------------------------------------------- _saveTile, setStorageSize
\* self.status.lengthSaved += 1
Saved(s) == [s EXCEPT !.lengthSaved = @ + 1]

\* the comparison made against lengthLoaded: every tile downloaded so far is saved
SaveEndOfLoaded(s) == s.lengthSaved = s.lengthLoaded

\* the comparison made against the first tile: a tile is saved
SaveEndAtFirst(s) == s.lengthSaved = 1

\* if (self.status.lengthSaved === self.status.lengthToBeSaved)
SaveEnd(s) == s.lengthSaved = s.lengthToBeSaved

\* the events of the persist callback: savetileend, and saveend on the last tile
SaveEvents(s) ==
    <<Ev("savetileend", s)>> \o (IF SaveEnd(s) THEN <<Ev("saveend", s)>> ELSE <<>>)

\* if (this.status.storagesize) return Promise.resolve(this.status.storagesize):
\* the values setStorageSize settles with at once
Cached(s) == IF s.storagesize # 0 THEN <<s.storagesize>> ELSE <<>>

\* setStorageSize: a non-zero storagesize is returned as it is; otherwise
\* getStorageLength() is called.  The number of queries the call starts.
SetStorageSize(s) == IF s.storagesize # 0 THEN 0 ELSE 1

\* saveTile(tile, blob) of run r resolves: the tile is in the store
SaveResolved(r, t) ==
    /\ <<r, t>> \in saving
    /\ saving' = saving \ {<<r, t>>}
    /\ store' = store \cup {t}
    /\ LET s == Saved(status)
           q == IF SaveEnd(s) THEN SetStorageSize(s) ELSE 0
       IN  /\ status' = s
           /\ fired' = SaveEvents(s)
           /\ counting' = counting + q
           /\ settled' = IF SaveEnd(s) THEN Cached(s) ELSE <<>>
           /\ call' = NoCall
           /\ unhandled' = 0
           /\ emitted' = [emitted EXCEPT !.saveend = @ + Count(SaveEvents(s), "saveend"),
                                         !.recount = @ + q]
    /\ UNCHANGED <<options, baseLayer, nruns, enumerated, tiles, gate, launched, worker, claimed,
                   rmHeld, truncating>>
    /\ UNCHANGED <<calls, pending>>

\* saveTile rejects: .catch((err) => { throw new Error(err) }) rejects a promise
\* nobody holds
SaveRejected(r, t) ==
    /\ <<r, t>> \in saving
    /\ saving' = saving \ {<<r, t>>}
    /\ unhandled' = 1
    /\ fired' = <<>>
    /\ settled' = <<>>
    /\ call' = NoCall
    /\ UNCHANGED <<options, baseLayer, status, nruns, enumerated, tiles, gate, launched, worker,
                   claimed, store, counting, rmHeld, truncating, emitted>>
    /\ UNCHANGED <<calls, pending>>

\* setStorageSize() or getStorageSize(callback) called from outside the control
GetStorageSize ==
    /\ counting < MaxSizeCalls
    /\ counting' = counting + SetStorageSize(status)
    /\ settled' = Cached(status)
    /\ call' = NoCall
    /\ unhandled' = 0
    /\ fired' = <<>>
    /\ UNCHANGED <<options, baseLayer, status, nruns, enumerated, tiles, gate, calls, launched,
                   worker, pending, claimed, saving, store, rmHeld, truncating,
                   emitted>>

\* getStorageLength() resolves with the number of keys in the store
CountResolved ==
    /\ counting > 0
    /\ counting' = counting - 1
    /\ status' = [status EXCEPT !.storagesize = Cardinality(store)]
    /\ fired' = <<Ev("storagesize", status')>>
    /\ settled' = <<Cardinality(store)>>
    /\ call' = NoCall
    /\ unhandled' = 0
    /\ UNCHANGED <<options, baseLayer, nruns, enumerated, tiles, gate, launched, worker, claimed,
                   saving, store, rmHeld, truncating, emitted>>
    /\ UNCHANGED <<calls, pending>>

\* the count taken for a failed getStorageLength() before the size is stored
CountRejectedStoresZero ==
    /\ counting > 0
    /\ counting' = counting - 1
    /\ status' = [status EXCEPT !.storagesize = 0]
    /\ fired' = <<Ev("storagesize", status')>>
    /\ settled' = <<0>>
    /\ call' = NoCall
    /\ unhandled' = 0
    /\ UNCHANGED <<options, baseLayer, nruns, enumerated, tiles, gate, launched, worker, claimed,
                   saving, store, rmHeld, truncating, emitted>>
    /\ UNCHANGED <<calls, pending>>

\* .catch(() => 0): the value a failed count settles with
CountFailed == 0

\* getStorageLength() rejects: .catch(() => 0)
CountRejected ==
    /\ counting > 0
    /\ counting' = counting - 1
    /\ fired' = <<>>
    /\ settled' = <<CountFailed>>
    /\ call' = NoCall
    /\ unhandled' = 0
    /\ UNCHANGED <<options, baseLayer, status, nruns, enumerated, tiles, gate, launched, worker,
                   claimed, saving, store, rmHeld, truncating, emitted>>
    /\ UNCHANGED <<calls, pending>>

\* ---------------------------------------------------------------- _rmTiles
\* a click on the remove button
RmTiles ==
    /\ IF options.confirmRemoval
       THEN \* this.options.confirmRemoval(this.status, successCallback)
            rmHeld' = TRUE /\ UNCHANGED truncating
       ELSE \* successCallback(): truncate()
            /\ truncating < MaxRemovals
            /\ truncating' = truncating + 1
            /\ UNCHANGED rmHeld
    /\ fired' = <<>>
    /\ settled' = <<>>
    /\ call' = NoCall
    /\ unhandled' = 0
    /\ UNCHANGED <<options, baseLayer, status, nruns, enumerated, tiles, gate, launched, worker,
                   claimed, saving, store, counting, emitted>>
    /\ UNCHANGED <<calls, pending>>

\* the confirmRemoval hook calls a successCallback it was handed, the first time
\* or once more (every such closure does the same): truncate()
RmProceed ==
    /\ rmHeld
    /\ truncating < MaxRemovals
    /\ truncating' = truncating + 1
    /\ fired' = <<>>
    /\ settled' = <<>>
    /\ call' = NoCall
    /\ unhandled' = 0
    /\ UNCHANGED <<options, baseLayer, status, nruns, enumerated, tiles, gate, launched, worker,
                   claimed, saving, store, counting, rmHeld, emitted>>
    /\ UNCHANGED <<calls, pending>>

\* a removal that leaves storagesize as it was
RemovedKeepsSize(s) == s

\* a removal that starts the Status Record afresh
RemovedResetsProgress(s) ==
    [s EXCEPT !.storagesize = 0, !.lengthToBeSaved = 0, !.lengthLoaded = 0, !.lengthSaved = 0]

\* the status after a removal
Removed(s) == [s EXCEPT !.storagesize = 0]

\* the events of a removal
RemovalEvents(s) == <<Ev("tilesremoved", NoPayload), Ev("storagesize", s)>>

\* truncate() resolves: the store is empty
TruncateResolved ==
    /\ truncating > 0
    /\ truncating' = truncating - 1
    /\ store' = {}
    /\ status' = Removed(status)
    /\ fired' = RemovalEvents(status')
    /\ settled' = <<>>
    /\ call' = NoCall
    /\ unhandled' = 0
    /\ UNCHANGED <<options, baseLayer, nruns, enumerated, tiles, gate, launched, worker, claimed,
                   saving, counting, rmHeld, emitted>>
    /\ UNCHANGED <<calls, pending>>

\* truncate() rejects: the promise has no rejection handler
TruncateRejected ==
    /\ truncating > 0
    /\ truncating' = truncating - 1
    /\ unhandled' = 1
    /\ fired' = <<>>
    /\ settled' = <<>>
    /\ call' = NoCall
    /\ UNCHANGED <<options, baseLayer, status, nruns, enumerated, tiles, gate, launched, worker,
                   claimed, saving, store, counting, rmHeld, emitted>>
    /\ UNCHANGED <<calls, pending>>

\* ---------------------------------------------------------------- setLayer
\* the layers a control can be given
Layers == {"first", "second"}

\* setLayer(layer): this._baseLayer = layer
SetLayer(l) ==
    /\ l # baseLayer
    /\ baseLayer' = l
    /\ fired' = <<>>
    /\ settled' = <<>>
    /\ unhandled' = 0
    /\ call' = NoCall
    /\ UNCHANGED <<options, status, nruns, enumerated, tiles, gate, calls, launched,
                   worker, pending, claimed, saving, store, counting, rmHeld,
                   truncating, emitted>>

\* ------------------------------------------------------------ specification
Next ==
    \/ \E z \in MapZooms : SaveTiles(z)
    \/ \E r \in Runs : Proceed(r)
    \/ \E r \in Runs, w \in Workers : DownloadResolved(r, w)
    \/ Loader
    \/ \E r \in Runs, w \in Workers : DownloadRejected(r, w)
    \/ \E x \in saving : SaveResolved(x[1], x[2])
    \/ \E x \in saving : SaveRejected(x[1], x[2])
    \/ CountResolved
    \/ CountRejected
    \/ GetStorageSize
    \/ RmTiles
    \/ RmProceed
    \/ TruncateResolved
    \/ TruncateRejected
    \/ \E l \in Layers : SetLayer(l)

Spec == Init /\ [][Next]_vars

\* one save run: a single save request gets past the zoom check
NextRun ==
    \/ \E z \in MapZooms : (nruns = 0 \/ ZoomTooLow(options, z)) /\ SaveTiles(z)
    \/ \E r \in Runs : Proceed(r)
    \/ \E r \in Runs, w \in Workers : DownloadResolved(r, w)
    \/ Loader
    \/ \E r \in Runs, w \in Workers : DownloadRejected(r, w)
    \/ \E x \in saving : SaveResolved(x[1], x[2])
    \/ \E x \in saving : SaveRejected(x[1], x[2])
    \/ CountResolved
    \/ CountRejected
    \/ GetStorageSize
    \/ RmTiles
    \/ RmProceed
    \/ TruncateResolved
    \/ TruncateRejected
    \/ \E l \in Layers : SetLayer(l)

SpecRun == Init /\ [][NextRun]_vars

\* overlapping save runs: a new save request while the downloads and persists
\* of an earlier one are outstanding, nothing failing and nothing removed
NextOverlap ==
    \/ \E z \in MapZooms : SaveTiles(z)
    \/ \E r \in Runs : Proceed(r)
    \/ \E r \in Runs, w \in Workers : DownloadResolved(r, w)
    \/ Loader
    \/ \E x \in saving : SaveResolved(x[1], x[2])
    \/ CountResolved

SpecOverlap == Init /\ [][NextOverlap]_vars

\* the tiles a request can enumerate
AllTiles == {<<z, 1>> : z \in MapZooms \cup {ThreeLevels[i] : i \in DOMAIN ThreeLevels}}

\* one save run in which no download, persist or removal fails or is requested:
\* the collaborators settle every promise, and settle it by resolving
NextFair ==
    \/ \E z \in MapZooms : nruns = 0 /\ SaveTiles(z)
    \/ \E r \in Runs : Proceed(r)
    \/ \E r \in Runs, w \in Workers : DownloadResolved(r, w)
    \/ Loader
    \/ \E x \in saving : SaveResolved(x[1], x[2])
    \/ CountResolved
    \/ CountRejected

SpecFair ==
    /\ InitAll
    /\ [][NextFair]_vars
    /\ \A r \in Runs, w \in Workers : WF_vars(DownloadResolved(r, w))
    /\ WF_vars(Loader)
    /\ \A r \in Runs, t \in AllTiles : WF_vars(SaveResolved(r, t))

\* ------------------------------------------------------------------ claims
\* the chains of run r whose download is outstanding
InFlight(r) == {w \in Workers : worker[r][w].st = "loading"}

\* the chains of run r whose .then(loader) reaction is queued
Queued(r) == {w \in Workers : worker[r][w].st = "loaded"}

\* the tiles of run r whose saveTile is outstanding
Persisting(r) == {x \in saving : x[1] = r}

\* the number of tiles _saveTiles enumerated for run r
TileCount(r) == Len(enumerated[r])

\* C1: during a single save run, 0 <= lengthSaved <= lengthLoaded <=
\* lengthToBeSaved in every reachable state
C1_CountersOrdered ==
    /\ 0 <= status.lengthSaved
    /\ status.lengthSaved <= status.lengthLoaded
    /\ status.lengthLoaded <= status.lengthToBeSaved

\* a run of two tiles, both downloaded, one of them persisted
C1_Witness ==
    /\ status.lengthToBeSaved = 2
    /\ status.lengthLoaded = 2
    /\ status.lengthSaved = 1

\* C2: the downloads of a run that are outstanding number at most
\* min(tileCount, maxParallel)
C2_DownloadsBounded ==
    \A r \in Runs :
        Cardinality(InFlight(r)) <= Min(TileCount(r), options.parallel)

\* C3: the tiles handed to _loadTile are the enumerated list from its front, each
\* position once, in the order of the list; what is left in the array is the rest
C3_ClaimedOnceInOrder ==
    \A r \in Runs :
        /\ claimed[r] \o tiles[r] = enumerated[r]
        /\ \A w \in InFlight(r) :
               \E i \in 1..Len(claimed[r]) : claimed[r][i] = worker[r][w].tile
        /\ \A v, w \in InFlight(r) : worker[r][v].tile = worker[r][w].tile => v = w

\* one chain has claimed both tiles of a two-tile list, one after the other
C3_Witness ==
    \E r \in Runs :
        /\ launched[r] = 1
        /\ Len(claimed[r]) = 2

\* run r has been started and has nothing outstanding: every chain has ended
RunOver(r) ==
    /\ gate[r] = "passed"
    /\ InFlight(r) = {}
    /\ Queued(r) = {}
    /\ Persisting(r) = {}

\* C4 as claimed: every save run emits loadend exactly once (a run that is over
\* has emitted it once)
C4_LoadendExactlyOnce ==
    \A r \in Runs : (status.run = r /\ RunOver(r)) => emitted.loadend = 1

\* C4 as the code has it: loadend is emitted at most once in a run, in exactly the
\* step in which lengthLoaded becomes equal to lengthToBeSaved, and never with a
\* record in which the two differ; a run has emitted it once exactly when it has
\* at least one tile and lengthLoaded has reached lengthToBeSaved
C4_LoadendOnTransition ==
    /\ [](/\ emitted.loadend =
               (IF status.lengthToBeSaved >= 1 /\
                   status.lengthLoaded = status.lengthToBeSaved THEN 1 ELSE 0)
          /\ \A i \in DOMAIN fired :
                fired[i].name = "loadend" =>
                    fired[i].status.lengthLoaded = fired[i].status.lengthToBeSaved)
    /\ [][/\ Count(fired', "loadend") <= 1
          /\ Count(fired', "loadend") = 1 <=>
                /\ status'.run = status.run
                /\ status'.lengthLoaded # status.lengthLoaded
                /\ status'.lengthLoaded = status'.lengthToBeSaved]_vars

\* the download of the second of two tiles has just resolved: loadend is fired
C4_Witness ==
    /\ Count(fired, "loadend") = 1
    /\ status.lengthToBeSaved = 2
    /\ emitted.loadend = 1

\* C5 as claimed: every save run emits saveend exactly once (a run that is over
\* has emitted it once)
C5_SaveendExactlyOnce ==
    \A r \in Runs : (status.run = r /\ RunOver(r)) => emitted.saveend = 1

\* C5 as the code has it: saveend is emitted at most once in a run, in exactly the
\* step in which lengthSaved becomes equal to lengthToBeSaved, and never with a
\* record in which the two differ; a run has emitted it once exactly when it has
\* at least one tile and lengthSaved has reached lengthToBeSaved
C5_SaveendOnTransition ==
    /\ [](/\ emitted.saveend =
               (IF status.lengthToBeSaved >= 1 /\
                   status.lengthSaved = status.lengthToBeSaved THEN 1 ELSE 0)
          /\ \A i \in DOMAIN fired :
                fired[i].name = "saveend" =>
                    fired[i].status.lengthSaved = fired[i].status.lengthToBeSaved)
    /\ [][/\ Count(fired', "saveend") <= 1
          /\ Count(fired', "saveend") = 1 <=>
                /\ status'.run = status.run
                /\ status'.lengthSaved # status.lengthSaved
                /\ status'.lengthSaved = status'.lengthToBeSaved]_vars

\* the second of two tiles has just been persisted: saveend is fired
C5_Witness ==
    /\ Count(fired, "saveend") = 1
    /\ status.lengthToBeSaved = 2
    /\ emitted.saveend = 1

\* C6: a run that has reached lengthSaved = lengthToBeSaved (and fired saveend) has
\* queried the Storage Adapter's count exactly once, whatever storagesize was
C6_RecountOnSaveend ==
    emitted.saveend = 1 => emitted.recount = 1

\* C8: the tiles of a run that are claimed and not yet persisted (download or
\* persist outstanding) number at most min(tileCount, maxParallel)
C8_OutstandingBounded ==
    \A r \in Runs :
        Cardinality(InFlight(r)) + Cardinality(Persisting(r))
            <= Min(TileCount(r), options.parallel)

\* run r has ended with every one of its n tiles downloaded and persisted
Completed(r, n) ==
    /\ tiles[r] = <<>>
    /\ InFlight(r) = {}
    /\ Queued(r) = {}
    /\ Persisting(r) = {}
    /\ status.lengthLoaded = n
    /\ status.lengthSaved = n
    /\ status.lengthToBeSaved = n
    /\ emitted.saveend = 1

\* C7: a started run of N >= 1 tiles whose downloads and persists all succeed
\* reaches the state with nothing left or outstanding, lengthLoaded = lengthSaved
\* = lengthToBeSaved = N and exactly one saveend; with N = 3 and parallel = 2 two
\* chains are started and the third tile is claimed by the chain that was freed
\* first: the one whose download callback ran first, when its loader runs
C7_RunCompletes ==
    /\ \A n \in 1..Len(ThreeLevels) :
          (gate[1] = "passed" /\ TileCount(1) = n) ~> Completed(1, n)
    /\ [](/\ emitted.saveend <= 1
          /\ (gate[1] = "passed" /\ TileCount(1) = 3 /\ options.parallel = 2)
                => launched[1] = 2)
    /\ [][(TileCount(1) = 3 /\ options.parallel = 2 /\
           Len(claimed[1]) = 2 /\ Len(claimed'[1]) = 3)
            => /\ pending # <<>>
               /\ Head(pending)[1] = 1
               /\ pending' = Tail(pending)
               /\ status' = status
               /\ LET w == Head(pending)[2]
                  IN  /\ worker[1][w].st = "loaded"
                      /\ worker'[1][w] = [st |-> "loading", tile |-> enumerated[1][3]]
                      /\ \A v \in Workers \ {w} : worker'[1][v] = worker[1][v]]_vars

\* C9: a save request in "save what you see" mode at a zoom below 5 throws and
\* does nothing else (no download, no event, no hook call, Status Record and work
\* list as before); a request is refused only then, so at zoom >= 5 it is not
C9_ZoomFloor ==
    [][/\ call'.threw =>
             /\ options.saveWhatYouSee
             /\ call'.zoom < 5
             /\ fired' = <<>>
             /\ settled' = <<>>
             /\ unhandled' = 0
             /\ UNCHANGED <<options, baseLayer, status, nruns, enumerated, tiles, gate,
                            calls, launched, worker, pending, claimed, saving, store, counting,
                            rmHeld, truncating, emitted>>
       /\ nruns' # nruns =>
             /\ ~call'.threw
             /\ ~(options.saveWhatYouSee /\ call'.zoom < 5)]_vars

\* a request at zoom 4 was refused while the downloads of a run were outstanding
C9_Witness ==
    /\ call.threw
    /\ call.zoom = 4
    /\ options.saveWhatYouSee
    /\ fired = <<>>
    /\ InFlight(1) # {}

\* no save run is in flight
Idle == \A r \in Runs : InFlight(r) = {} /\ Queued(r) = {} /\ Persisting(r) = {}

\* C10: without a confirmRemoval hook and with no save run in flight, the step in
\* which truncate resolves empties the store, sets storagesize to 0 and fires
\* tilesremoved and then storagesize; tilesremoved is fired in no other step; the
\* request itself and a rejected truncate change no storagesize and fire nothing
C10_Removal ==
    [][(~options.confirmRemoval /\ Idle) =>
          /\ (truncating' = truncating - 1 /\ unhandled' = 0) =>
                /\ store' = {}
                /\ status'.storagesize = 0
                /\ Names(fired') = <<"tilesremoved", "storagesize">>
                /\ fired'[2].status = status'
          /\ (truncating' = truncating - 1 /\ unhandled' = 1) =>
                /\ status' = status
                /\ store' = store
                /\ fired' = <<>>
          /\ truncating' = truncating + 1 =>
                /\ status' = status
                /\ store' = store
                /\ fired' = <<>>
          /\ Count(fired', "tilesremoved") > 0 =>
                (truncating' = truncating - 1 /\ unhandled' = 0)]_vars

\* a removal has just completed after a run that persisted its tiles
C10_Witness ==
    /\ ~options.confirmRemoval
    /\ Idle
    /\ Names(fired) = <<"tilesremoved", "storagesize">>
    /\ status.lengthSaved >= 1
    /\ status.storagesize = 0
    /\ store = {}

\* C11: while the confirm hook of a request holds successCallback, no download of
\* the request has started, no savestart was fired and the Status Record is at its
\* reset values (counters 0, lengthToBeSaved the number of enumerated tiles, the
\* array the full list); the request itself only hands over to the hook; without
\* a hook the request itself fires savestart and starts the loader chains
C11_ConfirmGate ==
    /\ [](\A r \in Runs : gate[r] = "waiting" =>
             /\ options.confirm
             /\ InFlight(r) = {}
             /\ claimed[r] = <<>>
             /\ launched[r] = 0
             /\ emitted.savestart = 0
             /\ status.lengthLoaded = 0
             /\ status.lengthSaved = 0
             /\ status.lengthToBeSaved = TileCount(r)
             /\ status.run = r
             /\ tilesforSave = enumerated[r])
    /\ [][nruns' # nruns =>
            IF options.confirm
            THEN /\ gate'[nruns'] = "waiting"
                 /\ fired' = <<>>
                 /\ worker' = worker
            ELSE /\ gate'[nruns'] = "passed"
                 /\ Names(fired') = <<"savestart">>
                 /\ launched'[nruns'] = Min(Len(enumerated'[nruns']), options.parallel)
                 /\ Cardinality({w \in Workers : worker'[nruns'][w].st = "loading"})
                       = launched'[nruns']]_vars

\* the hook of a request for two tiles still holds successCallback when a
\* removal completes, after the constructor's count
C11_Witness ==
    /\ options.confirm
    /\ gate[1] = "waiting"
    /\ TileCount(1) = 2
    /\ counting = 0
    /\ truncating = 0
    /\ Names(fired) = <<"tilesremoved", "storagesize">>

\* the events that report progress or the size of the store
ProgressEvents ==
    {"savestart", "loadtileend", "loadend", "savetileend", "saveend",
     "storagesize", "tilesremoved"}

\* the step fires an event that is none of the progress events: a failure signal
\* (_saveTiles returns nothing, so an event is the only signal a caller can get)
FailureSignalled == \E i \in DOMAIN fired' : fired'[i].name \notin ProgressEvents

\* this step settles a saveTile promise without counting the tile: it rejected
PersistFailed == \E x \in saving : x \notin saving' /\ status'.lengthSaved = status.lengthSaved

\* C12: the step in which persisting a downloaded tile fails signals the failure
\* to the caller, so that no run ends below lengthToBeSaved without a signal
C12_PersistFailureSignalled ==
    [][PersistFailed => FailureSignalled]_vars

\* C13: the step in which a getStorageLength() promise settles rejects nothing
\* towards the caller of setStorageSize: either the count failed, the promise
\* settles with 0, the Status Record is as it was and no event is fired, or the
\* count is the number n of stored tiles, the promise settles with n, storagesize
\* is n and storagesize is fired with the record
C13_CountFailureSwallowed ==
    [][counting' = counting - 1 =>
          /\ unhandled' = 0
          /\ \/ /\ settled' = <<0>>
                /\ status' = status
                /\ fired' = <<>>
             \/ /\ settled' = <<Cardinality(store)>>
                /\ status' = [status EXCEPT !.storagesize = Cardinality(store)]
                /\ Names(fired') = <<"storagesize">>
                /\ fired'[1].status = status']_vars

\* the recount started by saveend has just failed: the store holds the saved
\* tiles, storagesize is still 0 and nothing was fired
C13_Witness ==
    /\ emitted.saveend = 1
    /\ emitted.recount = 1
    /\ counting = 0
    /\ settled = <<0>>
    /\ fired = <<>>
    /\ store # {}
    /\ status.storagesize = 0

\* the chains of run r that were started
Started(r) == {w \in Workers : worker[r][w].st # "none"}

\* C14: savestart is fired only in the step in which a run passes the confirm gate
\* (the request itself without a hook, the hook's call of successCallback with
\* one), and its listener finds the array of the run still whole: no tile was
\* claimed before it; a run that has claimed a tile or has a download outstanding
\* has passed the gate, so its savestart was fired
C14_SavestartFirst ==
    /\ [](\A r \in Runs : (Started(r) # {} \/ claimed[r] # <<>> \/ tiles[r] # enumerated[r]) =>
             gate[r] = "passed")
    /\ [][\A r \in Runs :
            /\ (gate'[r] = "passed" /\ gate[r] # "passed") =>
                  /\ IF options.confirm THEN gate[r] = "waiting"
                                        ELSE gate[r] = "none" /\ nruns' = r
                  /\ Started(r) = {}
                  /\ claimed[r] = <<>>
                  /\ Names(fired') = <<"savestart">>
                  /\ fired'[1].status = status'
                  /\ status'.run = r => fired'[1].tilesforSave = enumerated'[r]
            /\ (Count(fired', "savestart") > 0) =>
                  \E q \in Runs : gate'[q] = "passed" /\ gate[q] # "passed"]_vars

\* C15: also with overlapping save requests the counters count tiles of the
\* current run only: lengthSaved <= lengthLoaded <= lengthToBeSaved, and no more
\* tiles are counted as loaded than the current run has claimed
C15_CountersOfCurrentRun ==
    /\ status.lengthSaved <= status.lengthLoaded
    /\ status.lengthLoaded <= status.lengthToBeSaved
    /\ status.run > 0 => status.lengthLoaded <= Len(claimed[status.run])

\* C16: the step in which a removal completes (truncate settles) changes nothing
\* of the Status Record but storagesize, which becomes 0 when truncate resolved:
\* lengthToBeSaved, lengthLoaded, lengthSaved and the array of every run are as
\* they were and no loader chain is stopped, started or given another tile
C16_RemovalFrame ==
    [][truncating' = truncating - 1 =>
          /\ status' = [status EXCEPT !.storagesize = IF unhandled' = 0 THEN 0 ELSE @]
          /\ UNCHANGED <<tiles, enumerated, worker, claimed, launched, gate, nruns,
                         saving, counting, emitted>>]_vars

\* a removal has just completed while a run is in flight: a tile is loaded and
\* saved and another is being downloaded
C16_Witness ==
    /\ Names(fired) = <<"tilesremoved", "storagesize">>
    /\ InFlight(1) # {}
    /\ status.lengthToBeSaved = 2
    /\ status.lengthLoaded = 1
    /\ status.lengthSaved = 1
    /\ status.storagesize = 0
    /\ fired[2].status = status

\* this step settles the download of chain w of run r by rejecting it
DownloadFailed(r, w) == worker[r][w].st = "loading" /\ worker'[r][w].st = "failed"

\* C17: the step in which a download fails stops the chain that claimed the tile
\* and nothing else: the counters, the array (the tile is not put back), the
\* other chains and the persists are as they were, no progress event is fired,
\* loadend and saveend are never fired by the run, and the loss of the tile is
\* signalled to the caller
C17_DownloadFailure ==
    /\ [][\A r \in Runs, w \in Workers : DownloadFailed(r, w) =>
             /\ status' = status
             /\ tiles' = tiles
             /\ claimed' = claimed
             /\ saving' = saving
             /\ \A v \in Workers \ {w} : worker'[r][v] = worker[r][v]
             /\ \A i \in DOMAIN fired' : fired'[i].name \notin ProgressEvents
             /\ FailureSignalled]_vars
    /\ [](\A r \in Runs : (\E w \in Workers : worker[r][w].st = "failed") =>
             emitted.loadend = 0 /\ emitted.saveend = 0)

\* the tiles of run r whose download callback has run: loadtileend was fired for them
LoadedTiles(r) ==
    {claimed[r][i] : i \in DOMAIN claimed[r]} \
        {worker[r][w].tile : w \in {v \in Workers : worker[r][v].st \in {"loading", "failed"}}}

\* C18: in a single run loadtileend of a tile is fired in the step that starts its
\* persist and savetileend in a later step, the one in which that persist
\* resolves; saveend is fired only in a run whose loadend was fired in an earlier
\* step
C18_EventOrder ==
    /\ [](/\ \A x \in saving : x[2] \in LoadedTiles(x[1])
          /\ emitted.saveend >= 1 => emitted.loadend >= 1)
    /\ [][/\ Count(fired', "loadtileend") > 0 =>
                /\ Count(fired', "savetileend") = 0
                /\ \E x \in saving' \ saving : x[2] \notin LoadedTiles(x[1])
          /\ Count(fired', "savetileend") > 0 =>
                /\ Count(fired', "loadtileend") = 0
                /\ \E x \in saving \ saving' : x[2] \in LoadedTiles(x[1])
                /\ status'.lengthSaved <= status.lengthLoaded
          /\ Count(fired', "saveend") > 0 =>
                /\ emitted.loadend = 1
                /\ Count(fired', "loadend") = 0]_vars

\* the second of two tiles has just been saved: saveend is fired, loadend was
C18_Witness ==
    /\ TileCount(1) = 2
    /\ Names(fired) = <<"savetileend", "saveend">>
    /\ emitted.loadend = 1
    /\ emitted.saveend = 1
    /\ LoadedTiles(1) = {enumerated[1][1], enumerated[1][2]}

\* the chains of run r that a rejected download has stopped
Failed(r) == {w \in Workers : worker[r][w].st = "failed"}

\* every tile of the current run is in exactly one place: still in the array,
\* being downloaded, counted as loaded, or lost with a failed download
Accounted(r) ==
    Len(tiles[r]) + Cardinality(InFlight(r)) + status.lengthLoaded + Cardinality(Failed(r))
        = status.lengthToBeSaved

\* C19 as claimed: in a run that passed the gate every tile is accounted for,
\* and the array is empty when the run is over
C19_WorkListDrains ==
    \A r \in Runs : gate[r] = "passed" =>
        /\ Accounted(r)
        /\ RunOver(r) => tiles[r] = <<>>

\* C19: in a run that passed the gate every tile is accounted for; the array
\* never grows; when the run is over the array is empty unless every chain
\* that was started has been stopped by a failed download, and then the array
\* holds the tiles that no chain claimed
C19_WorkListAccounted ==
    /\ [](\A r \in Runs : gate[r] = "passed" =>
             /\ Accounted(r)
             /\ (RunOver(r) /\ tiles[r] # <<>>) =>
                   /\ Cardinality(Failed(r)) = launched[r]
                   /\ launched[r] >= 1
             /\ (RunOver(r) /\ Failed(r) = {}) => tiles[r] = <<>>)
    /\ [][\A r \in Runs : gate[r] = "passed" =>
             /\ Len(tiles'[r]) <= Len(tiles[r])
             /\ \E k \in 0..Len(tiles[r]) : tiles'[r] = SubSeq(tiles[r], k + 1, Len(tiles[r]))]_vars

\* a run of two tiles on one chain is over with its first download failed: the
\* second tile is still in the array
C19_Witness ==
    /\ gate[1] = "passed"
    /\ RunOver(1)
    /\ TileCount(1) = 2
    /\ launched[1] = 1
    /\ Cardinality(Failed(1)) = 1
    /\ Len(tiles[1]) = 1
    /\ status.lengthLoaded = 0

\* C20: a run whose tile list is empty and that passed the gate has fired
\* savestart (once for every call of successCallback), has started no loader chain and no download and has claimed
\* nothing; loadend and saveend were not fired for it and no recount was started,
\* while its counters are all 0 = lengthToBeSaved; the step that passes its gate
\* (without a hook the request itself) fires savestart alone
C20_EmptyRun ==
    /\ [](\A r \in Runs : (gate[r] = "passed" /\ TileCount(r) = 0) =>
             /\ emitted.savestart >= 1
             /\ launched[r] = 0
             /\ Started(r) = {}
             /\ claimed[r] = <<>>
             /\ Persisting(r) = {}
             /\ emitted.loadend = 0
             /\ emitted.saveend = 0
             /\ emitted.recount = 0
             /\ status.lengthToBeSaved = 0
             /\ status.lengthLoaded = 0
             /\ status.lengthSaved = 0)
    /\ [][\A r \in Runs : (gate'[r] = "passed" /\ gate[r] # "passed" /\ enumerated'[r] = <<>>) =>
             /\ Names(fired') = <<"savestart">>
             /\ counting' = counting
             /\ ~options.confirm => nruns' = r /\ gate[r] = "none"]_vars

\* an empty run passed the gate earlier: the constructor's count has completed
\* since and a removal completes now, with nothing else outstanding
C20_Witness ==
    /\ gate[1] = "passed"
    /\ TileCount(1) = 0
    /\ emitted.savestart = 1
    /\ counting = 0
    /\ truncating = 0
    /\ Names(fired) = <<"tilesremoved", "storagesize">>

====
